---- MODULE Spec2Model ----
(***************************************************************************)
(* Model of coupled_oscillators.py: the stiffness conditioning             *)
(* (symmetrize, eigh, clamp, reconstruct), the derivative function, the    *)
(* fixed-step RK4 integrator, and the module-level script that runs two    *)
(* example scenarios through plot_animation.                               *)
(*                                                                         *)
(* Arithmetic.  The code computes in double precision; the model computes  *)
(* in exact real arithmetic.  A number is an element of Q[Floor]: a        *)
(* polynomial with rational coefficients in the clamping constant 1e-6 of  *)
(* line 42, written as the sequence of its coefficients (lowest degree     *)
(* first, no trailing zero, << >> is 0).  Keeping Floor as a symbol keeps  *)
(* every coefficient inside TLC's 32-bit integers; where the code compares *)
(* numbers that contain Floor (the claims about the clamped eigenvalues),  *)
(* the polynomial is evaluated at 1/1000000.  Rounding, overflow to inf    *)
(* and NaN are outside the model, and so is a mass of exactly 0 (numpy     *)
(* yields inf/nan there, with a warning and no exception).                 *)
(***************************************************************************)
EXTENDS Integers, Sequences, FiniteSets, TLC

---------------------------------------------------------------------------
(* Rationals: [n |-> numerator, d |-> denominator > 0], in lowest terms.   *)

Abs(a) == IF a < 0 THEN -a ELSE a

RECURSIVE GCD(_, _)
GCD(a, b) == IF b = 0 THEN Abs(a) ELSE GCD(b, a % b)

RNorm(a, b) ==
    LET g == GCD(Abs(a), Abs(b))
        s == IF b < 0 THEN -1 ELSE 1
    IN  [n |-> s * (a \div g), d |-> s * (b \div g)]

R(a) == [n |-> a, d |-> 1]
RZero == R(0)
ROne == R(1)
RFrac(a, b) == RNorm(a, b)

RAdd(p, q) ==
    LET g == GCD(p.d, q.d)
    IN  RNorm(p.n * (q.d \div g) + q.n * (p.d \div g), (p.d \div g) * q.d)

RNeg(p) == [n |-> -p.n, d |-> p.d]
RSub(p, q) == RAdd(p, RNeg(q))

RMul(p, q) ==
    LET g1 == GCD(Abs(p.n), q.d)
        g2 == GCD(Abs(q.n), p.d)
    IN  IF p.n = 0 \/ q.n = 0 THEN RZero
        ELSE [n |-> (p.n \div g1) * (q.n \div g2),
              d |-> (p.d \div g2) * (q.d \div g1)]

RInv(p) == RNorm(p.d, p.n)
RDiv(p, q) == RMul(p, RInv(q))
RLess(p, q) == p.n * q.d < q.n * p.d
RLeq(p, q) == p.n * q.d <= q.n * p.d

(* The integer square root of a perfect square, -1 when a is not one.      *)
ISqrt(a) ==
    IF a < 0 THEN -1
    ELSE LET S == {s \in 0..a : s * s = a}
         IN  IF S = {} THEN -1 ELSE CHOOSE s \in S : TRUE

---------------------------------------------------------------------------
(* Numbers: polynomials in Floor over the rationals.                       *)

(* p without its trailing zero coefficients.                               *)
PTrim(p) ==
    LET nz == {k \in 1..Len(p) : p[k].n # 0}
        top == IF nz = {} THEN 0 ELSE CHOOSE k \in nz : \A j \in nz : j <= k
    IN  SubSeq(p, 1, top)

PZero == << >>
PConst(r) == PTrim(<<r>>)
PInt(a) == PConst(R(a))
PCoef(p, k) == IF k >= 1 /\ k <= Len(p) THEN p[k] ELSE RZero
MaxOf(a, b) == IF a >= b THEN a ELSE b

PAdd(p, q) == PTrim([k \in 1..MaxOf(Len(p), Len(q)) |-> RAdd(PCoef(p, k), PCoef(q, k))])
PScale(r, p) == PTrim([k \in 1..Len(p) |-> RMul(r, p[k])])
PNeg(p) == [k \in 1..Len(p) |-> RNeg(p[k])]
PSub(p, q) == PAdd(p, PNeg(q))

(* Sum over j in lo..hi of F[j], F a function to rationals.                *)
RSum(F, lo, hi) ==
    LET S[k \in (lo - 1)..hi] == IF k < lo THEN RZero ELSE RAdd(S[k - 1], F[k])
    IN  S[hi]

PMul(p, q) ==
    IF p = << >> \/ q = << >> THEN << >>
    ELSE PTrim([k \in 1..(Len(p) + Len(q) - 1) |->
                  RSum([j \in 1..Len(p) |-> RMul(p[j], PCoef(q, k - j + 1))], 1, Len(p))])

(* The value of a number of degree <= 1 with Floor = 1/FloorDen.           *)
FloorDen == 1000000
FloorRat == RFrac(1, FloorDen)
FloorNum == <<RZero, ROne>>
PValue(p) == RAdd(PCoef(p, 1), RMul(PCoef(p, 2), FloorRat))

---------------------------------------------------------------------------
(* Vectors and matrices of numbers (1-based; index k models Python k-1).   *)

VZeros(len) == [k \in 1..len |-> PZero]
VAdd(u, v) == [k \in 1..Len(u) |-> PAdd(u[k], v[k])]
VScale(r, v) == [k \in 1..Len(v) |-> PScale(r, v[k])]

PSum(F, lo, hi) ==
    LET S[k \in (lo - 1)..hi] == IF k < lo THEN PZero ELSE PAdd(S[k - 1], F[k])
    IN  S[hi]

Dot(u, v) == PSum([k \in 1..Len(u) |-> PMul(u[k], v[k])], 1, Len(u))

---------------------------------------------------------------------------
(* Bounds of the model.                                                    *)

(* np.linspace(0, 20, 1000) of line 51 is explored as                      *)
(* np.linspace(0, TimeStop, TimePoints), a uniform grid of step 2.         *)
TimePoints == 3
TimeStop == 2 * (TimePoints - 1)
(* A direct call of runge_kutta_4 gets a strictly increasing grid of at    *)
(* most MaxGridLen integer time points drawn from 0..MaxTime.              *)
MaxGridLen == 3
MaxTime == 3
(* The eigen-decomposition is modelled in closed form for 1x1 and 2x2      *)
(* matrices, so the oscillator count is 1 or 2.                            *)
Sizes == {1, 2}
(* The entries the inputs are drawn from.                                  *)
KValues == {0, 1}
MassValues == {-1, 2}
DispValues == {0, 1}
VelValues == {0, 1}
DirectKValues == {-1, 1}
DirectMassValues == {1, 2}

---------------------------------------------------------------------------
(* The functions of the program.                                           *)

(* class Oscillator: a record of the two attributes __init__ stores.       *)
Oscillator(mass, k_row) == [mass |-> mass, k_row |-> k_row]

(* equationOfBlock without the minus sign.                                 *)
equationOfBlockNoMinus(oscillator, displacements) ==
    PScale(RInv(oscillator.mass), Dot(oscillator.k_row, displacements))

(* equationOfBlock with a constant force added to the restoring force.     *)
equationOfBlockForced(oscillator, displacements) ==
    PScale(RInv(oscillator.mass),
           PAdd(PNeg(Dot(oscillator.k_row, displacements)), PInt(1)))

(* equationOfBlock: (-np.dot(k_row, displacements)) / mass.                *)
equationOfBlock(oscillator, displacements) ==
    PScale(RInv(oscillator.mass), PNeg(Dot(oscillator.k_row, displacements)))

(* derivatives: dydt[:n] = y[n:], dydt[n+i] = equationOfBlock(...).        *)
derivatives(tt, y, oscs) ==
    LET nn == Len(oscs)
        displacements == SubSeq(y, 1, nn)
        velocities == SubSeq(y, nn + 1, Len(y))
    IN  [k \in 1..Len(y) |->
            IF k <= nn THEN velocities[k]
            ELSE equationOfBlock(oscs[k - nn], displacements)]

(* Line 36 without the weights 2 of k2 and k3.                             *)
rkCombineUnweighted(yi, k1, k2, k3, k4) ==
    VAdd(yi, VScale(RFrac(1, 6), VAdd(VAdd(k1, k2), VAdd(k3, k4))))

(* Line 36: y[i] + (k1 + 2 * k2 + 2 * k3 + k4) / 6.                        *)
rkCombine(yi, k1, k2, k3, k4) ==
    VAdd(yi, VScale(RFrac(1, 6),
             VAdd(VAdd(k1, VScale(R(2), k2)), VAdd(VScale(R(2), k3), k4))))

(* Lines 31-36: one iteration of the loop of runge_kutta_4, from row yi at *)
(* time ti to the row at time tn.                                          *)
rkStep(ti, tn, yi, oscs) ==
    LET h == RSub(tn, ti)
        half == RFrac(1, 2)
        hh == RMul(h, half)
        k1 == VScale(h, derivatives(ti, yi, oscs))
        k2 == VScale(h, derivatives(RAdd(ti, hh), VAdd(yi, VScale(half, k1)), oscs))
        k3 == VScale(h, derivatives(RAdd(ti, hh), VAdd(yi, VScale(half, k2)), oscs))
        k4 == VScale(h, derivatives(RAdd(ti, h), VAdd(yi, k3), oscs))
    IN  rkCombine(yi, k1, k2, k3, k4)

(* Line 28 without line 29.                                                *)
rkAllocZerosOnly(y0v, tt) == [r \in 1..Len(tt) |-> VZeros(Len(y0v))]

(* Lines 28-29: y = np.zeros((n, len(y0))); y[0] = y0, for a grid that is  *)
(* not empty (for an empty one y has no row 0 and line 29 raises).         *)
rkAlloc(y0v, tt) ==
    [r \in 1..Len(tt) |-> IF r = 1 THEN y0v ELSE VZeros(Len(y0v))]

(* Line 36 assigns y[i + 1]: row i + 2 of the model's 1-based trajectory.   *)
(* Line 36 assigning y[i] instead.                                         *)
rkTargetOverwrite(ii) == ii + 1
rkTarget(ii) == ii + 2

(* range(n - 1) of line 30: the number of iterations of the loop.          *)
rkIterations(tt) == IF Len(tt) >= 1 THEN Len(tt) - 1 ELSE 0

(* plot_animation without line 47.                                         *)
symmetrizeSkipped(K) == K

(* Line 47: (k_matrix + k_matrix.T) / 2.                                   *)
symmetrize(K) ==
    [r \in 1..Len(K) |-> [c \in 1..Len(K) |->
        RMul(RFrac(1, 2), RAdd(K[r][c], K[c][r]))]]

RSqrt(q) == [n |-> ISqrt(q.n), d |-> ISqrt(q.d)]
RIsSquare(q) == ISqrt(q.n) >= 0 /\ ISqrt(q.d) >= 0

(* The discriminant (a - d)^2 + 4 b^2 of the 2x2 matrix [[a, .], [b, d]].  *)
eighDisc(K) ==
    LET amd == RSub(K[1][1], K[2][2])
    IN  RAdd(RMul(amd, amd), RMul(R(4), RMul(K[2][1], K[2][1])))

(* The matrices whose eigenvalues are rational: the ones the model can     *)
(* decompose exactly.                                                      *)
HasRationalEigen(K) == Len(K) = 1 \/ K[2][1].n = 0 \/ RIsSquare(eighDisc(K))

(* np.linalg.eigh of line 41, for a 1x1 or 2x2 matrix: it reads the lower  *)
(* triangle, returns the eigenvalues in ascending order and an eigenvector *)
(* for each.  The eigenvectors are kept unnormalised (vecs[k] belongs to   *)
(* vals[k]); the reconstruction divides by their squared length.           *)
eigh(K) ==
    IF Len(K) = 1 THEN [vals |-> <<K[1][1]>>, vecs |-> <<<<ROne>>>>]
    ELSE LET a == K[1][1]
             b == K[2][1]
             d == K[2][2]
             s == RSqrt(eighDisc(K))
             lo == RMul(RFrac(1, 2), RSub(RAdd(a, d), s))
             hi == RMul(RFrac(1, 2), RAdd(RAdd(a, d), s))
         IN  IF b.n = 0
             THEN IF RLeq(a, d)
                  THEN [vals |-> <<a, d>>, vecs |-> <<<<ROne, RZero>>, <<RZero, ROne>>>>]
                  ELSE [vals |-> <<d, a>>, vecs |-> <<<<RZero, ROne>>, <<ROne, RZero>>>>]
             ELSE [vals |-> <<lo, hi>>,
                   vecs |-> <<<<b, RSub(lo, a)>>, <<b, RSub(hi, a)>>>>]

(* Line 42: eigvals[eigvals < 0] = 1e-6.                                   *)
clampEigvals(vals) ==
    [k \in 1..Len(vals) |-> IF RLess(vals[k], RZero) THEN FloorNum ELSE PConst(vals[k])]

(* Line 43: eigvecs @ np.diag(eigvals) @ eigvecs.T, entry (r, c) being the *)
(* sum over k of eigvals[k] * v_k[r] * v_k[c] / |v_k|^2.                   *)
reconstruct(vals, vecs) ==
    LET norm2(v) == RSum([j \in 1..Len(v) |-> RMul(v[j], v[j])], 1, Len(v))
    IN  [r \in 1..Len(vals) |-> [c \in 1..Len(vals) |->
            PSum([k \in 1..Len(vals) |->
                    PScale(RDiv(RMul(vecs[k][r], vecs[k][c]), norm2(vecs[k])), vals[k])],
                 1, Len(vals))]]

(* make_positive_definite, lines 39-43.                                    *)
make_positive_definite(K) ==
    LET e == eigh(K)
    IN  reconstruct(clampEigvals(e.vals), e.vecs)

(* np.linspace(start, stop, num) of line 51.                               *)
linspace(start, stop, num) ==
    [j \in 1..num |->
        IF num = 1 THEN R(start)
        ELSE RAdd(R(start), RFrac((j - 1) * (stop - start), num - 1))]

(* Line 52: np.concatenate([initial_displacements, initial_velocities]),   *)
(* the integer inputs converted to numbers.                                *)
concatenate(xs, vs) == [k \in 1..(Len(xs) + Len(vs)) |->
    IF k <= Len(xs) THEN PInt(xs[k]) ELSE PInt(vs[k - Len(xs)])]

(* The test of line 57 on the first row only.                              *)
maxAmplitudeFirstRowIsZero(sol, nn) == \A c \in 1..nn : sol[1][c] = PZero

(* Lines 55-57: max_amplitude = np.max(np.abs(solution[:, :n])) is 0       *)
(* exactly when every displacement entry of every row is 0.                *)
maxAmplitudeIsZero(sol, nn) ==
    \A r \in 1..Len(sol) : \A c \in 1..nn : sol[r][c] = PZero

(* Line 58 with the trajectory attached to the exception.                  *)
raiseValueErrorWithSolution(sol) ==
    [type |-> "ValueError",
     args |-> <<"All displacement values are zero. Please check the input data.", sol>>]

(* Line 58: the exception plot_animation raises.                           *)
raiseValueError(sol) ==
    [type |-> "ValueError",
     args |-> <<"All displacement values are zero. Please check the input data.">>]

---------------------------------------------------------------------------
(* The inputs the model explores.  The stiffness matrix is square and the  *)
(* displacement and velocity sequences have length n; the mass sequence    *)
(* may have the wrong length or a negative entry.                          *)

ToRat(K) == [r \in 1..Len(K) |-> [c \in 1..Len(K[r]) |-> R(K[r][c])]]
(* The raw stiffness matrices, symmetric or not, that the model can        *)
(* decompose exactly once symmetrized.                                     *)
Matrices(nn) ==
    {K \in [1..nn -> [1..nn -> KValues]] :
        HasRationalEigen(symmetrize(ToRat(K)))}
(* A mass sequence of the right length, or unit masses with one entry     *)
(* missing or one entry too many.                                          *)
MassSeqs(nn) ==
    [1..nn -> MassValues] \cup {[j \in 1..len |-> 1] : len \in {nn - 1, nn + 1}}
(* The empty grid and the strictly increasing grids that start at 0.       *)
Grids ==
    {g \in UNION {[1..len -> 0..MaxTime] : len \in 0..MaxGridLen} :
        /\ Len(g) >= 1 => g[1] = 0
        /\ \A j \in 1..(Len(g) - 1) : g[j] < g[j + 1]}

---------------------------------------------------------------------------
(* State.  pc is the position of control:                                  *)
(*   "example"  at module level, about to run example ex (lines 93-104 for *)
(*              ex = 1, lines 109-127 for ex = 2)                          *)
(*   "call"     a caller about to call runge_kutta_4 directly (ex = 0)     *)
(*   "rk4"      in the loop of runge_kutta_4, i iterations done            *)
(*   "raised"   line 58 has raised, the except clause has not run yet      *)
(*   "render"   past line 58, about to render (lines 60-90)                *)
(*   "returned" the direct call has returned                               *)
(*   "exit"     the script has ended                                       *)
(*   "crashed"  an exception no except clause catches has ended the run   *)
VARIABLES
    pc, ex,
    n, masses, k_matrix, initial_displacements, initial_velocities,
    k_sym, eigvals, k_pd, oscillators, t, y0, solution,
    y, i, fy,
    err, printed, rendered, result

(* The parameters of plot_animation (line 45) and its locals: k_sym and    *)
(* k_pd are the values its k_matrix takes at lines 47 and 48, eigvals is   *)
(* the clamped vector of line 42.                                          *)
params == <<n, masses, k_matrix, initial_displacements, initial_velocities>>
locals == <<k_sym, eigvals, k_pd, oscillators, t, y0, solution>>
rkLocals == <<y, i, fy>>
vars == <<pc, ex, params, locals, rkLocals, err, printed, rendered, result>>

NoLocals ==
    /\ n' = 0 /\ masses' = << >> /\ k_matrix' = << >>
    /\ initial_displacements' = << >> /\ initial_velocities' = << >>
    /\ k_sym' = << >> /\ eigvals' = << >> /\ k_pd' = << >> /\ oscillators' = << >>
    /\ t' = << >> /\ y0' = << >> /\ solution' = << >>
NoRkLocals == y' = << >> /\ i' = 0 /\ fy' = << >>
NoError == [type |-> "", args |-> << >>]

InitCommon ==
    /\ n = 0 /\ masses = << >> /\ k_matrix = << >>
    /\ initial_displacements = << >> /\ initial_velocities = << >>
    /\ k_sym = << >> /\ eigvals = << >> /\ k_pd = << >> /\ oscillators = << >>
    /\ t = << >> /\ y0 = << >> /\ solution = << >>
    /\ y = << >> /\ i = 0 /\ fy = << >>
    /\ err = NoError /\ printed = << >> /\ rendered = << >> /\ result = << >>

(* The script, before line 93.                                             *)
Init == pc = "example" /\ ex = 1 /\ InitCommon

(* Where control goes when plot_animation is left at module level.         *)
AfterExample == IF ex = 1 THEN pc' = "example" /\ ex' = 2 ELSE pc' = "exit" /\ ex' = ex

(* Lines 93-104 (ex = 1) and 109-127 (ex = 2): the example's data is       *)
(* assigned to the module's params and plot_animation is called; it runs  *)
(* lines 47-52 and enters runge_kutta_4 (lines 27-29).                     *)
Example ==
    /\ pc = "example"
    /\ \E nn \in Sizes :
       \E ms \in MassSeqs(nn), K \in Matrices(nn),
          xs \in [1..nn -> DispValues], vs \in [1..nn -> VelValues] :
        /\ LET ks == symmetrize(ToRat(K))
               e == eigh(ks)
               kp == make_positive_definite(ks)
               tt == linspace(0, TimeStop, TimePoints)
               yv == concatenate(xs, vs)
           IN  IF Len(ms) < nn
               THEN (* line 50: masses[i] raises IndexError, which no      *)
                    (* except clause catches.                              *)
                    /\ pc' = "crashed"
                    /\ err' = [type |-> "IndexError", args |-> << >>]
                    /\ NoLocals /\ NoRkLocals
               ELSE /\ n' = nn /\ masses' = ms /\ k_matrix' = K
                    /\ initial_displacements' = xs /\ initial_velocities' = vs
                    /\ k_sym' = ks
                    /\ eigvals' = clampEigvals(e.vals)
                    /\ k_pd' = kp
                    /\ oscillators' = [j \in 1..nn |-> Oscillator(R(ms[j]), kp[j])]
                    /\ t' = tt /\ y0' = yv /\ solution' = << >>
                    /\ y' = rkAlloc(yv, tt) /\ i' = 0 /\ fy' = << >>
                    /\ pc' = "rk4"
                    /\ err' = NoError
    /\ UNCHANGED <<ex, printed, rendered, result>>

(* Lines 30-36: one iteration of the loop.  Python's y[i] is row i + 1.    *)
RK4Step ==
    /\ pc = "rk4"
    /\ i < rkIterations(t)
    /\ y' = [y EXCEPT ![rkTarget(i)] = rkStep(t[i + 1], t[i + 2], y[i + 1], oscillators)]
    /\ fy' = derivatives(t[i + 1], y[i + 1], oscillators)
    /\ i' = i + 1
    /\ UNCHANGED <<pc, ex, params, locals, err, printed, rendered, result>>

(* Line 37 back in plot_animation: lines 54-58.                            *)
RK4Return ==
    /\ pc = "rk4" /\ ex >= 1
    /\ i >= rkIterations(t)
    /\ solution' = y
    /\ NoRkLocals
    /\ IF maxAmplitudeIsZero(y, n)
       THEN pc' = "raised" /\ err' = raiseValueError(y)
       ELSE pc' = "render" /\ err' = NoError
    /\ UNCHANGED <<ex, params, k_sym, eigvals, k_pd, oscillators, t, y0,
                   printed, rendered, result>>

(* Lines 60-90: the renderer gets the trajectory; plot_animation returns.  *)
Render ==
    /\ pc = "render"
    /\ rendered' = Append(rendered, ex)
    /\ NoLocals
    /\ AfterExample
    /\ UNCHANGED <<rkLocals, err, printed, result>>

(* Lines 105-106 and 128-129: except ValueError as e: print("Error:", e).  *)
Except ==
    /\ pc = "raised"
    /\ printed' = Append(printed, [ex |-> ex, text |-> <<"Error:">> \o err.args])
    /\ NoLocals
    /\ err' = NoError
    /\ AfterExample
    /\ UNCHANGED <<rkLocals, rendered, result>>

Next == Example \/ RK4Step \/ RK4Return \/ Render \/ Except

Spec == Init /\ [][Next]_vars

---------------------------------------------------------------------------
(* runge_kutta_4 called directly, with any grid (lines 25-37).  The caller  *)
(* builds y0 from its displacements and velocities as line 52 does.        *)

DirectOscillators(nn) ==
    {[j \in 1..nn |-> Oscillator(R(ms[j]), [c \in 1..nn |-> PInt(K[j][c])])] :
        ms \in [1..nn -> DirectMassValues],
        K \in [1..nn -> [1..nn -> DirectKValues]]}

(* The initial vectors of a direct call: zero, or one unit entry (the step  *)
(* is linear in y0, so these span every initial state).                    *)
DirectStates(nn) ==
    {s \in [xs : [1..nn -> DispValues], vs : [1..nn -> VelValues]] :
        Cardinality({k \in 1..nn : s.xs[k] # 0}) + Cardinality({k \in 1..nn : s.vs[k] # 0}) <= 1}

InitRK == pc = "call" /\ ex = 0 /\ InitCommon

DirectCall ==
    /\ pc = "call"
    /\ \E nn \in Sizes :
       \E oscs \in DirectOscillators(nn), g \in Grids, s \in DirectStates(nn) :
        LET tt == [j \in 1..Len(g) |-> R(g[j])]
            xs == s.xs
            vs == s.vs
            yv == concatenate(xs, vs)
        IN  /\ oscillators' = oscs /\ t' = tt /\ y0' = yv
            /\ initial_displacements' = xs /\ initial_velocities' = vs
            /\ IF Len(tt) = 0
               THEN (* line 29: y has no row 0, y[0] = y0 raises IndexError *)
                    /\ pc' = "crashed"
                    /\ err' = [type |-> "IndexError", args |-> << >>]
                    /\ NoRkLocals
               ELSE /\ pc' = "rk4" /\ err' = NoError
                    /\ y' = rkAlloc(yv, tt) /\ i' = 0 /\ fy' = << >>
    /\ UNCHANGED <<ex, n, masses, k_matrix, k_sym, eigvals, k_pd, solution,
                   printed, rendered, result>>

(* Line 37: return y, to the direct caller.                                *)
RK4ReturnDirect ==
    /\ pc = "rk4" /\ ex = 0
    /\ i >= rkIterations(t)
    /\ result' = y
    /\ pc' = "returned"
    /\ UNCHANGED <<ex, params, locals, rkLocals, err, printed, rendered>>

NextRK == DirectCall \/ RK4Step \/ RK4ReturnDirect

SpecRK == InitRK /\ [][NextRK]_vars
---------------------------------------------------------------------------
(* Properties of runge_kutta_4 and derivatives, under SpecRK.              *)

(* The trajectory runge_kutta_4 holds: its local y, or what it returned.   *)
Trajectory == IF pc = "returned" THEN result ELSE y
InRK == pc \in {"rk4", "returned"}

(* C1: the trajectory has as many rows as the grid has points (m >= 1),    *)
(* every row has length 2n, and row 0 is the initial displacements         *)
(* followed by the initial velocities; this holds when the loop is entered,*)
(* after every iteration and for the returned value.                       *)
C1_TrajectoryShape ==
    InRK =>
        LET nn == Len(oscillators)
        IN  /\ Len(t) >= 1
            /\ Len(Trajectory) = Len(t)
            /\ \A r \in 1..Len(Trajectory) : Len(Trajectory[r]) = 2 * nn
            /\ \A k \in 1..nn :
                /\ Trajectory[1][k] = PInt(initial_displacements[k])
                /\ Trajectory[1][nn + k] = PInt(initial_velocities[k])

C1_Witness ==
    /\ pc = "returned" /\ Len(t) = 3 /\ Len(oscillators) = 2
    /\ initial_displacements = <<0, 0>> /\ initial_velocities = <<0, 1>>
    /\ result[3] # result[1] /\ result[2] # result[1]

(* The acceleration map of the model set: x |-> -(K x) / mass, row by row. *)
AccelOf(oscs, x) ==
    [r \in 1..Len(oscs) |->
        PScale(RNeg(RInv(oscs[r].mass)),
               PSum([c \in 1..Len(x) |-> PMul(oscs[r].k_row[c], x[c])], 1, Len(x)))]

(* The classical RK4 step of size h for the linear system x' = v,          *)
(* v' = W x, in closed form: the Taylor polynomial of degree 4 of the      *)
(* exact flow,                                                             *)
(*   x+ = x + h v + h^2/2 Wx + h^3/6 Wv + h^4/24 WWx                       *)
(*   v+ = v + h Wx + h^2/2 Wv + h^3/6 WWx + h^4/24 WWv.                    *)
RK4ClosedForm(h, row, oscs) ==
    LET nn == Len(oscs)
        x == SubSeq(row, 1, nn)
        v == SubSeq(row, nn + 1, 2 * nn)
        Wx == AccelOf(oscs, x)
        Wv == AccelOf(oscs, v)
        WWx == AccelOf(oscs, Wx)
        WWv == AccelOf(oscs, Wv)
        h2 == RMul(h, h)
        h3 == RMul(h2, h)
        h4 == RMul(h3, h)
        xn == VAdd(VAdd(x, VScale(h, v)),
                   VAdd(VScale(RDiv(h2, R(2)), Wx),
                        VAdd(VScale(RDiv(h3, R(6)), Wv), VScale(RDiv(h4, R(24)), WWx))))
        vn == VAdd(VAdd(v, VScale(h, Wx)),
                   VAdd(VScale(RDiv(h2, R(2)), Wv),
                        VAdd(VScale(RDiv(h3, R(6)), WWx), VScale(RDiv(h4, R(24)), WWv))))
    IN  xn \o vn

(* C2: for every interval of the grid already integrated, uniform or not,  *)
(* row j+1 is the classical RK4 step y_j + (k1 + 2 k2 + 2 k3 + k4)/6 with  *)
(* h = t_{j+1} - t_j applied to row j: a function of row j, of that h and  *)
(* of the model set only, with no clamping between steps.  For the linear  *)
(* right-hand side of derivatives that step is RK4ClosedForm.  Each        *)
(* iteration writes that row and no other, and the trajectory returned is  *)
(* the one the loop built.                                                 *)
C2_RK4Step ==
    [][/\ (pc' = "rk4" /\ i' = i + 1) =>
            /\ y'[i + 2] = RK4ClosedForm(RSub(t[i + 2], t[i + 1]), y[i + 1], oscillators)
            /\ \A r \in 1..Len(y) : r # i + 2 => y'[r] = y[r]
            /\ Len(y') = Len(y)
       /\ (pc' = "returned") => (result' = y /\ i = Len(t) - 1)]_vars

C2_Witness ==
    /\ pc = "returned" /\ Len(oscillators) = 2
    /\ t = <<R(0), R(1), R(3)>>
    /\ oscillators[1].mass = R(2) /\ oscillators[2].mass = R(1)
    /\ \A k \in 1..4 : result[2][k] # PZero /\ result[3][k] # result[2][k]

(* C3: derivatives(t, y, oscillators) returns d of length 2n with          *)
(* d[k] = y[n + k] and d[n + k] = -(k_row_k . y[0..n)) / mass_k, so that   *)
(* mass_k * d[n + k] + k_row_k . y[0..n) = 0 (for n = 1, mass 1 and        *)
(* k_row = [k] the acceleration is -k x); the call leaves the state vector *)
(* it is given and the models unchanged.  fy is the value of               *)
(* f(t[i], y[i]) in the iteration just done.                               *)
C3_Derivatives ==
    [][(pc' = "rk4" /\ i' = i + 1) =>
        LET nn == Len(oscillators)
            yy == y[i + 1]
        IN  /\ Len(fy') = 2 * nn
            /\ Len(yy) = 2 * nn
            /\ \A k \in 1..nn :
                /\ fy'[k] = yy[nn + k]
                /\ PAdd(PScale(oscillators[k].mass, fy'[nn + k]),
                        Dot(oscillators[k].k_row, SubSeq(yy, 1, nn))) = PZero
            /\ (nn = 1 /\ oscillators[1].mass = ROne =>
                    fy'[2] = PNeg(PMul(oscillators[1].k_row[1], yy[1])))
            /\ y'[i + 1] = yy
            /\ oscillators' = oscillators]_vars

C3_Witness ==
    /\ pc = "rk4" /\ i = 1 /\ Len(oscillators) = 2
    /\ oscillators[1].mass = R(2)
    /\ oscillators[1].k_row = <<PInt(1), PInt(-1)>>
    /\ oscillators[2].k_row = <<PInt(-1), PInt(1)>>
    /\ y[1] = <<PInt(1), PInt(0), PInt(0), PInt(0)>>
    /\ fy = <<PZero, PZero, PConst(RFrac(-1, 2)), PConst(RFrac(1, oscillators[2].mass.n))>>

(* C8 as stated: for a grid of fewer than 2 points (length 0 or 1)         *)
(* runge_kutta_4 raises no error, does no integration step and returns     *)
(* exactly one row, equal to y0.                                           *)
C8_DegenerateGridOneRow ==
    (pc # "call" /\ Len(t) < 2) =>
        /\ pc # "crashed" /\ err = NoError
        /\ i = 0
        /\ Trajectory = <<y0>>

(* C8 amended: for a grid of length 1 runge_kutta_4 raises no error, does  *)
(* no integration step and returns exactly one row, equal to y0; for a     *)
(* grid of length 0 line 29 raises IndexError and nothing is returned.     *)
C8_DegenerateGrid ==
    /\ (pc # "call" /\ Len(t) = 1) =>
            /\ InRK /\ err = NoError
            /\ i = 0
            /\ Trajectory = <<y0>>
            /\ \A k \in 1..Len(oscillators) :
                /\ y0[k] = PInt(initial_displacements[k])
                /\ y0[Len(oscillators) + k] = PInt(initial_velocities[k])
    /\ (pc # "call" /\ Len(t) = 0) =>
            /\ pc = "crashed" /\ err.type = "IndexError"
            /\ y = << >> /\ result = << >>

C8_Witness ==
    /\ pc = "returned" /\ Len(t) = 1
    /\ initial_displacements = <<1, 0>> /\ initial_velocities = <<0, 0>>
    /\ result = <<y0>> /\ i = 0
---------------------------------------------------------------------------
(* Properties of the conditioning and of the script, under Spec.          *)

(* Control is inside plot_animation, past line 52.                         *)
InPlot == pc \in {"rk4", "raised", "render"}

(* C4 as stated: every eigenvalue of the conditioned matrix, that is every *)
(* entry of the clamped eigenvalue vector, is >= the floor 1e-6.           *)
C4_EigenvaluesAtLeastFloor ==
    InPlot => \A k \in 1..Len(eigvals) : RLeq(FloorRat, PValue(eigvals[k]))

(* What section 7 of the specification calls a valid input.                *)
ValidInput ==
    /\ Len(masses) = n
    /\ \A k \in 1..Len(masses) : masses[k] > 0
    /\ Len(k_matrix) = n /\ \A r \in 1..Len(k_matrix) : Len(k_matrix[r]) = n
    /\ Len(initial_displacements) = n /\ Len(initial_velocities) = n

(* C5 as stated: a mass sequence of the wrong length or with a mass <= 0   *)
(* is rejected before conditioning and integration begin, so that no       *)
(* conditioned matrix, model set or trajectory exists for such an input.   *)
C5_InvalidInputRejected ==
    InPlot => ValidInput

AllDisplacementsZero(traj, nn) ==
    \A r \in 1..Len(traj) : \A c \in 1..nn : Len(traj[r][c]) = 0

(* C6: when every displacement of the computed trajectory is exactly zero, *)
(* the ValueError is raised once the integration is complete (all rows     *)
(* computed) and before any rendering; the renderer is not invoked for     *)
(* that run; the except clause reports it and the script goes on to the    *)
(* next example instead of ending; rendering is reached only from a        *)
(* completed integration with a nonzero displacement.                      *)
C6_ZeroTrajectoryReported ==
    [][/\ (pc = "rk4" /\ pc' # "rk4") =>
            /\ i = Len(t) - 1
            /\ solution' = y /\ Len(solution') = Len(t)
            /\ rendered' = rendered
            /\ IF AllDisplacementsZero(y, n)
               THEN pc' = "raised" /\ err'.type = "ValueError"
               ELSE pc' = "render"
       /\ (pc = "raised") =>
            /\ rendered' = rendered
            /\ printed' = Append(printed, [ex |-> ex, text |-> <<"Error:">> \o err.args])
            /\ IF ex = 1 THEN pc' = "example" /\ ex' = 2 ELSE pc' = "exit"
       /\ (rendered' # rendered) =>
            /\ pc = "render"
            /\ ~AllDisplacementsZero(solution, n)
            /\ rendered' = Append(rendered, ex)]_vars

(* The first example was reported as all-zero and the second one is being  *)
(* integrated, with displacements that are zero at first and not later.    *)
C6_Witness ==
    /\ printed # << >> /\ printed[1].ex = 1 /\ rendered = << >>
    /\ ex = 2 /\ pc = "rk4" /\ i = 2 /\ n = 2
    /\ initial_displacements = <<0, 0>> /\ initial_velocities = <<0, 1>>
    /\ ~AllDisplacementsZero(y, n)

(* C7 as stated: when the ValueError of line 58 is raised, the trajectory  *)
(* is available to the caller of plot_animation: the exception it catches  *)
(* carries it.                                                             *)
C7_TrajectoryAvailableToCaller ==
    pc = "raised" => Len(err.args) >= 2

(* C7 amended: when the ValueError of line 58 is raised the full           *)
(* trajectory (all m rows) has been computed, but it is a local of         *)
(* plot_animation: the exception the caller catches carries only its       *)
(* message, nothing is returned, and once control is back at module level  *)
(* no trajectory exists any more.                                          *)
C7_TrajectoryNotAvailable ==
    /\ pc = "raised" =>
            /\ Len(solution) = Len(t) /\ Len(t) = TimePoints
            /\ AllDisplacementsZero(solution, n)
            /\ err.type = "ValueError" /\ Len(err.args) = 1
            /\ result = << >>
    /\ pc \in {"example", "exit"} =>
            /\ solution = << >> /\ y = << >> /\ result = << >>
            /\ \A k \in 1..Len(printed) : Len(printed[k].text) = 2

C7_Witness ==
    /\ pc = "exit" /\ Len(printed) = 2 /\ rendered = << >>
    /\ solution = << >>

(* C9: with all initial displacements and velocities zero, any stiffness   *)
(* matrix and any positive masses, every row of the trajectory is zero     *)
(* after any number of steps, and the run ends in the ValueError of line   *)
(* 58, never in the renderer.                                              *)
C9_ZeroStateFixed ==
    (/\ InPlot
     /\ \A k \in 1..n : initial_displacements[k] = 0 /\ initial_velocities[k] = 0
     /\ \A k \in 1..Len(masses) : masses[k] > 0) =>
        /\ pc # "render"
        /\ \A r \in 1..Len(y) : \A c \in 1..(2 * n) : y[r][c] = PZero
        /\ \A r \in 1..Len(solution) : \A c \in 1..(2 * n) : solution[r][c] = PZero
        /\ (pc = "rk4" /\ i >= 1) => \A c \in 1..(2 * n) : fy[c] = PZero
        /\ pc = "raised" => err.type = "ValueError" /\ Len(solution) = Len(t)

(* A zero start with a clamped, non-diagonal stiffness and unequal masses. *)
C9_Witness ==
    /\ pc = "raised" /\ n = 2
    /\ initial_displacements = <<0, 0>> /\ initial_velocities = <<0, 0>>
    /\ k_matrix = <<<<0, 1>>, <<1, 0>>>>
    /\ masses = <<2, 2>>
    /\ eigvals[1] = FloorNum
    /\ Len(solution) = TimePoints

IsSymmetric(M) == \A r \in 1..Len(M) : \A c \in 1..Len(M) : M[r][c] = M[c][r]

(* C10: for any square input, symmetric or not, the matrix handed to the   *)
(* eigen-decomposition is the symmetrized one, and the conditioned matrix  *)
(* the coupling rows are taken from satisfies K'[r][c] = K'[c][r].         *)
C10_ConditionedSymmetric ==
    InPlot =>
        /\ IsSymmetric(k_sym)
        /\ \A r \in 1..n : \A c \in 1..n :
              RAdd(k_sym[r][c], k_sym[r][c]) = R(k_matrix[r][c] + k_matrix[c][r])
        /\ IsSymmetric(k_pd)
        /\ \A r \in 1..n : oscillators[r].k_row = k_pd[r]

(* A non-symmetric input whose symmetrization has a clamped eigenvalue.    *)
C10_Witness ==
    /\ pc = "rk4" /\ n = 2
    /\ k_matrix = <<<<0, 1>>, <<0, 0>>>>
    /\ eigvals[1] = FloorNum /\ eigvals[2] = PConst(RFrac(1, 2))
    /\ k_pd[1][2] = k_pd[2][1] /\ k_pd[1][2] # PZero
====
